---- MODULE Spec2Model ----
(***************************************************************************)
(* Lightweight Web Analytics: the ingestion path (POST /api/track and      *)
(* POST /api/events), the per-route admission maps, the SQLite store with  *)
(* its AUTOINCREMENT keys and its cleanup_old_data trigger.                *)
(*                                                                         *)
(* Time is counted in ticks of 1/TicksPerSecond second, because the        *)
(* millisecond values of the source (30 days = 2 592 000 000 ms) do not    *)
(* fit TLC's integers.  One tick is shorter than a second so that the      *)
(* whole-second clock of the trigger (strftime('%s','now')) and the        *)
(* millisecond clock of Date.now() stay distinguishable.                   *)
(***************************************************************************)
EXTENDS Integers, Sequences, FiniteSets, TLC

VARIABLES
    now,          \* Date.now(), in ticks
    rateLimit,    \* RATE_LIMIT, read from the environment when the routes load
    rateLimits,   \* route -> the route module's Map: ip -> {count, timestamp}
    db,           \* the SQLite store: the four tables and sqlite_sequence
    hs,           \* request handlers: position, client address, response
    calls,        \* history: per route and source, the admit calls of the open window
    last,         \* history: the request body most recently handled, and its handler
    batches,      \* history: the keys of each committed web-vitals batch
    nreq,         \* history: the number of requests received
    page,         \* the browser page running public/analytics.js
    report        \* the read most recently served: its arguments and its result

vars == <<now, rateLimit, rateLimits, db, hs, calls, last, batches, nreq, page, report>>

----------------------------------------------------------------------------
(* Bounds of the model *)

TicksPerSecond == 2
NumHandlers == 2
MaxRequests == 2
MaxExtraCalls == 2
MaxJitter == 1
LowRateLimit == 1
MaxLoads == 1
MaxLen == 25
MaxCeiling == 3

----------------------------------------------------------------------------
(* Program constants *)

RATE_LIMIT_DEFAULT == 100
SECOND == TicksPerSecond
RATE_WINDOW == 60 * SECOND
RETENTION == 30 * 24 * 60 * 60 * SECOND
hashSalt == "default-salt-change-me"
DEFAULT_IP == "127.0.0.1"

\* The clock starts on a whole second, late enough for every timestamp of the
\* model to be positive.
T0 == 2 * RETENTION

----------------------------------------------------------------------------
(* JavaScript values, as far as the handlers look at them *)

JsUndefined == [type |-> "undefined", str |-> "", num |-> 0]
JsNull == [type |-> "object", str |-> "null", num |-> 0]
JsStr(s) == [type |-> "string", str |-> s, num |-> 0]
JsNum(n) == [type |-> "number", str |-> "", num |-> n]
JsNaN == [type |-> "number", str |-> "NaN", num |-> 0]
JsBool(b) == [type |-> "boolean", str |-> IF b THEN "true" ELSE "false", num |-> 0]
JsObj(s) == [type |-> "object", str |-> s, num |-> 0]

isNaN(v) == v.type = "number" /\ v.str = "NaN"

\* ToBoolean: undefined, null, "", 0, NaN and false are falsy.
Truthy(v) ==
    CASE v.type = "undefined" -> FALSE
      [] v.type = "string" -> v.str # ""
      [] v.type = "number" -> ~isNaN(v) /\ v.num # 0
      [] v.type = "boolean" -> v.str = "true"
      [] OTHER -> v # JsNull

typeof(v) == v.type

\* SQL NULL, and what the driver binds for a JavaScript value.
NULL == "NULL"

\* x || null, for a string-valued attribute.
OrNull(v) == IF Truthy(v) THEN v.str ELSE NULL

\* SQL "a = b" as a WHERE condition: never satisfied when a side is NULL.
SqlEq(a, b) == a # NULL /\ b # NULL /\ a = b

\* JSON.stringify of a value: its JSON text, which is never the value itself.
JSONstringify(v) ==
    CASE v.type = "number" -> "json:" \o ToString(v.num)
      [] v.type = "string" -> "json:\"" \o v.str \o "\""
      [] OTHER -> "json:" \o v.str

----------------------------------------------------------------------------
(* The store: src/src/lib/db/index.ts and its schema *)

EmptyDb ==
    [user_agents |-> {}, pageviews |-> {}, web_vitals |-> {}, custom_events |-> {},
     seq |-> [user_agents |-> 0, pageviews |-> 0, web_vitals |-> 0, custom_events |-> 0]]

SetMin(S) == CHOOSE x \in S : \A y \in S : x <= y

\* A hashIp that returns the address as it is.
hashIpRaw(ip) == ip

\* sha256(ip + salt) as hex: a one-way token, written as the digest's argument.
hashIp(ip) == "sha256(" \o ip \o hashSalt \o ")"

\* The seven values insertUserAgent binds, in both of its statements.
UaBind(data) ==
    [browser |-> data.browser.str,
     browser_version |-> OrNull(data.browserVersion),
     os |-> OrNull(data.os),
     os_version |-> OrNull(data.osVersion),
     device_type |-> OrNull(data.deviceType),
     device_vendor |-> OrNull(data.deviceVendor),
     device_model |-> OrNull(data.deviceModel)]

\* The WHERE clause of the lookup: seven "column = ?" conditions.
UaMatch(row, b) ==
    /\ SqlEq(row.browser, b.browser)
    /\ SqlEq(row.browser_version, b.browser_version)
    /\ SqlEq(row.os, b.os)
    /\ SqlEq(row.os_version, b.os_version)
    /\ SqlEq(row.device_type, b.device_type)
    /\ SqlEq(row.device_vendor, b.device_vendor)
    /\ SqlEq(row.device_model, b.device_model)

\* The attribute tuple of a row, without its key.
UaTuple(row) ==
    <<row.browser, row.browser_version, row.os, row.os_version,
      row.device_type, row.device_vendor, row.device_model>>

\* Look the tuple up; return the key found, or insert a row and return its key.
insertUserAgent(d, data) ==
    LET b == UaBind(data)
        found == {r \in d.user_agents : UaMatch(r, b)}
        id == d.seq.user_agents + 1
        row == [id |-> id, browser |-> b.browser, browser_version |-> b.browser_version,
                os |-> b.os, os_version |-> b.os_version, device_type |-> b.device_type,
                device_vendor |-> b.device_vendor, device_model |-> b.device_model]
    IN  IF found # {}
        THEN [db |-> d, id |-> SetMin({r.id : r \in found})]
        ELSE [db |-> [d EXCEPT !.user_agents = @ \cup {row}, !.seq.user_agents = id],
              id |-> id]

\* (strftime('%s','now') * 1000) - (30 * 24 * 60 * 60 * 1000): the clock of the
\* trigger counts whole seconds.
Cutoff(t) == ((t \div SECOND) * SECOND) - RETENTION

\* A trigger whose orphan check reads the pageviews as they were before the
\* deletes by age.
cleanup_old_dataOrphansFirst(d, t) ==
    LET pv == {r \in d.pageviews : ~(r.timestamp < Cutoff(t))}
        wv == {r \in d.web_vitals : ~(r.timestamp < Cutoff(t))}
        ce == {r \in d.custom_events : ~(r.timestamp < Cutoff(t))}
        used == {r.user_agent_id : r \in d.pageviews}
        ua == {r \in d.user_agents : ~(r.id \notin used)}
    IN  [d EXCEPT !.pageviews = pv, !.web_vitals = wv, !.custom_events = ce,
                  !.user_agents = ua]

\* A trigger whose orphan check does not see the row whose insert fired it.
cleanup_old_dataBeforeInsert(d, t) ==
    LET pv == {r \in d.pageviews : ~(r.timestamp < Cutoff(t))}
        wv == {r \in d.web_vitals : ~(r.timestamp < Cutoff(t))}
        ce == {r \in d.custom_events : ~(r.timestamp < Cutoff(t))}
        used == {r.user_agent_id : r \in {x \in pv : x.id # d.seq.pageviews}}
        ua == {r \in d.user_agents : ~(r.id \notin used)}
    IN  [d EXCEPT !.pageviews = pv, !.web_vitals = wv, !.custom_events = ce,
                  !.user_agents = ua]

\* TRIGGER cleanup_old_data: three deletes by age, then the unused user agents.
cleanup_old_data(d, t) ==
    LET pv == {r \in d.pageviews : ~(r.timestamp < Cutoff(t))}
        wv == {r \in d.web_vitals : ~(r.timestamp < Cutoff(t))}
        ce == {r \in d.custom_events : ~(r.timestamp < Cutoff(t))}
        used == {r.user_agent_id : r \in pv}
        ua == {r \in d.user_agents : ~(r.id \notin used)}
    IN  [d EXCEPT !.pageviews = pv, !.web_vitals = wv, !.custom_events = ce,
                  !.user_agents = ua]

\* INSERT INTO pageviews, with the AFTER INSERT trigger as part of the statement;
\* lastInsertRowid is the key of the inserted row.
insertPageview(d, pageviewData, ipAddress, userAgentId, t) ==
    LET id == d.seq.pageviews + 1
        row == [id |-> id,
                page_url |-> pageviewData.pageUrl.str,
                timestamp |-> pageviewData.timestamp.num,
                session_id |-> pageviewData.sessionId.str,
                referrer |-> OrNull(pageviewData.referrer),
                ip_hash |-> hashIp(ipAddress),
                user_agent_id |-> userAgentId]
        inserted == [d EXCEPT !.pageviews = @ \cup {row}, !.seq.pageviews = id]
    IN  [db |-> cleanup_old_data(inserted, t), id |-> id]

\* The rows stmt.run has written for the first n items of the batch.
RECURSIVE RunWebVitalInserts(_, _, _, _, _, _)
RunWebVitalInserts(d, items, n, sessionId, pageUrl, timestamp) ==
    IF n = 0 THEN d
    ELSE LET before == RunWebVitalInserts(d, items, n - 1, sessionId, pageUrl, timestamp)
             id == before.seq.web_vitals + 1
             item == items[n]
             row == [id |-> id, session_id |-> sessionId, page_url |-> pageUrl,
                     timestamp |-> timestamp, metric_name |-> item.name.str,
                     metric_value |-> item.value.num,
                     metric_rating |-> OrNull(item.rating)]
         IN  [before EXCEPT !.web_vitals = @ \cup {row}, !.seq.web_vitals = id]

\* A transaction wrapper that does not roll back (the mock of the db tests:
\* transaction: vi.fn((fn) => fn)).
transactionNoRollback(before, written, threw) == written

\* db.transaction(fn): commit what fn wrote, or roll all of it back when fn threw.
transaction(before, written, threw) == IF threw THEN before ELSE written

\* insertWebVitals: one timestamp for the batch, the inserts in one transaction.
\* failAt names the item whose stmt.run fails (0: none does).
insertWebVitals(d, webVitals, sessionId, pageUrl, t, failAt) ==
    LET threw == failAt \in 1..Len(webVitals)
        n == IF threw THEN failAt - 1 ELSE Len(webVitals)
        written == RunWebVitalInserts(d, webVitals, n, sessionId, pageUrl, t)
    IN  [db |-> transaction(d, written, threw), threw |-> threw]

\* INSERT INTO custom_events; no trigger is attached to this table.
insertCustomEvent(d, eventData) ==
    LET id == d.seq.custom_events + 1
        row == [id |-> id,
                session_id |-> eventData.sessionId.str,
                page_url |-> eventData.pageUrl.str,
                timestamp |-> eventData.timestamp.num,
                event_name |-> eventData.eventName.str,
                event_data |-> IF Truthy(eventData.eventData)
                               THEN JSONstringify(eventData.eventData) ELSE NULL]
    IN  [db |-> [d EXCEPT !.custom_events = @ \cup {row}, !.seq.custom_events = id],
         id |-> id]

----------------------------------------------------------------------------
(* The reads: the statistics functions of src/src/lib/db/index.ts *)

DAY == 24 * 60 * 60 * SECOND

\* A window without its two bounds.
InWindowExclusive(r, startTime, endTime) == r.timestamp > startTime /\ r.timestamp < endTime

\* WHERE timestamp >= ? AND timestamp <= ?
InWindow(r, startTime, endTime) == r.timestamp >= startTime /\ r.timestamp <= endTime

\* The elements of a set of [ord, item] records as a sequence, ord ascending.
\* SQL leaves the order among equal ord open; CHOOSE fixes one.
RECURSIVE Ascending(_)
Ascending(S) ==
    IF S = {} THEN <<>>
    ELSE LET first == CHOOSE x \in S : \A y \in S : x.ord <= y.ord
         IN  <<first>> \o Ascending(S \ {first})

Items(seq) == [i \in 1..Len(seq) |-> seq[i].item]

\* LIMIT n
Limit(seq, n) == SubSeq(seq, 1, IF Len(seq) < n THEN Len(seq) ELSE n)

\* GROUP BY key with COUNT(*), over rows given as [key, row] pairs: one
\* [key, count] record per key.
GroupCounts(keyed) ==
    {[key |-> k, count |-> Cardinality({x \in keyed : x.key = k})] : k \in {x.key : x \in keyed}}

\* ORDER BY count DESC
OrderByCountDesc(groups) == Items(Ascending({[ord |-> 0 - g.count, item |-> g] : g \in groups}))

\* ORDER BY date
OrderByKey(groups) == Items(Ascending({[ord |-> g.key, item |-> g] : g \in groups}))

\* COALESCE(x, label)
COALESCE(x, label) == IF x = NULL THEN label ELSE x

\* date(timestamp/1000, 'unixepoch'): the UTC day, as its number since the epoch.
DateOf(r) == r.timestamp \div DAY

getPageviewStats(d, startTime, endTime) ==
    LET rows == {r \in d.pageviews : InWindow(r, startTime, endTime)}
        days == OrderByKey(GroupCounts({[key |-> DateOf(r), row |-> r] : r \in rows}))
        pages == Limit(OrderByCountDesc(
                           GroupCounts({[key |-> r.page_url, row |-> r] : r \in rows})), 10)
    IN  [total |-> Cardinality(rows),
         byDay |-> [i \in 1..Len(days) |-> [date |-> days[i].key, count |-> days[i].count]],
         byPage |-> [i \in 1..Len(pages) |->
                        [pageUrl |-> pages[i].key, count |-> pages[i].count]]]

\* A getReferrerStats without COALESCE and without LIMIT.
getReferrerStatsUnlabelled(d, startTime, endTime) ==
    LET rows == {r \in d.pageviews : InWindow(r, startTime, endTime)}
        groups == OrderByCountDesc(GroupCounts({[key |-> r.referrer, row |-> r] : r \in rows}))
    IN  [byReferrer |-> [i \in 1..Len(groups) |->
                            [referrer |-> groups[i].key, count |-> groups[i].count]]]

\* GROUP BY referrer puts the rows without referrer in one group; COALESCE
\* labels that group 'Direct'.
getReferrerStats(d, startTime, endTime) ==
    LET rows == {r \in d.pageviews : InWindow(r, startTime, endTime)}
        groups == Limit(OrderByCountDesc(
                            GroupCounts({[key |-> r.referrer, row |-> r] : r \in rows})), 10)
    IN  [byReferrer |-> [i \in 1..Len(groups) |->
                            [referrer |-> COALESCE(groups[i].key, "Direct"),
                             count |-> groups[i].count]]]

\* pageviews p JOIN user_agents ua ON p.user_agent_id = ua.id
JoinUserAgents(d, startTime, endTime) ==
    {x \in [p : {r \in d.pageviews : InWindow(r, startTime, endTime)}, ua : d.user_agents] :
        x.p.user_agent_id = x.ua.id}

getDeviceStats(d, startTime, endTime) ==
    LET rows == JoinUserAgents(d, startTime, endTime)
        browsers == Limit(OrderByCountDesc(
                              GroupCounts({[key |-> x.ua.browser, row |-> x] : x \in rows})), 10)
        oss == Limit(OrderByCountDesc(
                         GroupCounts({[key |-> x.ua.os, row |-> x] : x \in rows})), 10)
        deviceTypes == Limit(OrderByCountDesc(
                                 GroupCounts({[key |-> x.ua.device_type, row |-> x] :
                                                 x \in rows})), 10)
    IN  [byBrowser |-> [i \in 1..Len(browsers) |->
                           [browser |-> browsers[i].key, count |-> browsers[i].count]],
         byOS |-> [i \in 1..Len(oss) |->
                      [os |-> COALESCE(oss[i].key, "Unknown"), count |-> oss[i].count]],
         byDeviceType |-> [i \in 1..Len(deviceTypes) |->
                              [deviceType |-> COALESCE(deviceTypes[i].key, "Unknown"),
                               count |-> deviceTypes[i].count]]]

\* The pairs <<percentile, length>>, length up to MaxLen, for which the double
\* (percentile / 100) * length lies above the whole number percentile * length /
\* 100 (0.28 * 25 = 7.000000000000001, 0.56 * 25 = 14.000000000000002).
DoubleRoundsUp == {<<28, 25>>, <<56, 25>>}

\* Math.ceil((percentile / 100) * length), in double arithmetic.
CeilOfProduct(percentile, length) ==
    ((percentile * length + 99) \div 100)
      + (IF <<percentile, length>> \in DoubleRoundsUp THEN 1 ELSE 0)

Clamp(lo, hi, x) == IF x < lo THEN lo ELSE IF x > hi THEN hi ELSE x

\* calculatePercentile(sortedArray, percentile): the value, or the Error thrown.
calculatePercentile(sortedArray, percentile) ==
    IF Len(sortedArray) = 0 THEN [threw |-> FALSE, value |-> 0]
    ELSE IF percentile < 0 \/ percentile > 100 THEN [threw |-> TRUE, value |-> 0]
    ELSE LET index == CeilOfProduct(percentile, Len(sortedArray)) - 1
         IN  [threw |-> FALSE,
              value |-> sortedArray[Clamp(0, Len(sortedArray) - 1, index) + 1]]

\* METRIC_THRESHOLDS. Metric values are whole numbers in the model: CLS, a
\* fraction, is counted in thousandths (0.1 is 100, 0.25 is 250).
METRIC_THRESHOLDS ==
    [LCP |-> [good |-> 2500, needsImprovement |-> 4000],
     FID |-> [good |-> 100, needsImprovement |-> 300],
     CLS |-> [good |-> 100, needsImprovement |-> 250],
     FCP |-> [good |-> 1800, needsImprovement |-> 3000],
     TTFB |-> [good |-> 800, needsImprovement |-> 1800]]

RECURSIVE Sum(_)
Sum(seq) == IF seq = <<>> THEN 0 ELSE Head(seq) + Sum(Tail(seq))

\* SELECT metric_value ... ORDER BY metric_value, mapped to the values.
SortedValues(rows) ==
    LET sorted == Ascending({[ord |-> r.metric_value, item |-> r] : r \in rows})
    IN  [i \in 1..Len(sorted) |-> sorted[i].ord]

\* A byMetric entry whose rating is taken from the 75th percentile.
MetricStatsByP75(rows, name) ==
    LET threshold == METRIC_THRESHOLDS[name]
        sortedValues == SortedValues({r \in rows : r.metric_name = name})
        median == calculatePercentile(sortedValues, 50)
        p75 == calculatePercentile(sortedValues, 75)
        p95 == calculatePercentile(sortedValues, 95)
        rating == IF p75.value <= threshold.good THEN "good"
                  ELSE IF p75.value <= threshold.needsImprovement
                       THEN "needs-improvement"
                       ELSE "poor"
    IN  [name |-> name,
         average |-> [sum |-> Sum(sortedValues), count |-> Len(sortedValues)],
         median |-> median.value, p75 |-> p75.value, p95 |-> p95.value,
         rating |-> rating,
         threw |-> median.threw \/ p75.threw \/ p95.threw]

\* One entry of byMetric. AVG(metric_value) is kept as the sum and the number of
\* the values it divides.
MetricStats(rows, name) ==
    LET threshold == METRIC_THRESHOLDS[name]
        sortedValues == SortedValues({r \in rows : r.metric_name = name})
        median == calculatePercentile(sortedValues, 50)
        p75 == calculatePercentile(sortedValues, 75)
        p95 == calculatePercentile(sortedValues, 95)
        rating == IF median.value <= threshold.good THEN "good"
                  ELSE IF median.value <= threshold.needsImprovement
                       THEN "needs-improvement"
                       ELSE "poor"
    IN  [name |-> name,
         average |-> [sum |-> Sum(sortedValues), count |-> Len(sortedValues)],
         median |-> median.value, p75 |-> p75.value, p95 |-> p95.value,
         rating |-> rating,
         threw |-> median.threw \/ p75.threw \/ p95.threw]

\* SELECT DISTINCT metric_name leaves the order of the names open; the model
\* lists them in the order of their first rows.
getWebVitalStats(d, startTime, endTime) ==
    LET rows == {r \in d.web_vitals : InWindow(r, startTime, endTime)}
        metrics == Items(Ascending(
                       {[ord |-> SetMin({r.id : r \in {x \in rows : x.metric_name = name}}),
                         item |-> name] : name \in {r.metric_name : r \in rows}}))
    IN  [byMetric |-> [i \in 1..Len(metrics) |-> MetricStats(rows, metrics[i])]]

\* JSON.parse of a stored text: the value the text denotes.
JSONparse(text) == [parsed |-> text]

getCustomEventStats(d, startTime, endTime) ==
    LET rows == {r \in d.custom_events : InWindow(r, startTime, endTime)}
        events == Limit(OrderByCountDesc(
                            GroupCounts({[key |-> r.event_name, row |-> r] : r \in rows})), 10)
        recentEvents == Limit(Items(Ascending({[ord |-> 0 - r.timestamp, item |-> r] :
                                                  r \in rows})), 20)
    IN  [byEvent |-> [i \in 1..Len(events) |->
                         [eventName |-> events[i].key, count |-> events[i].count]],
         recent |-> [i \in 1..Len(recentEvents) |->
                        [eventName |-> recentEvents[i].event_name,
                         timestamp |-> recentEvents[i].timestamp,
                         pageUrl |-> recentEvents[i].page_url,
                         eventData |-> IF recentEvents[i].event_data # NULL
                                       THEN JSONparse(recentEvents[i].event_data)
                                       ELSE JsUndefined]]]

\* getDashboardData: the five sections over one window; threw tells that a
\* section raised an Error instead of returning.
getDashboardData(d, startTime, endTime) ==
    LET webVitals == getWebVitalStats(d, startTime, endTime)
    IN  [pageviews |-> getPageviewStats(d, startTime, endTime),
         referrers |-> getReferrerStats(d, startTime, endTime),
         devices |-> getDeviceStats(d, startTime, endTime),
         webVitals |-> webVitals,
         customEvents |-> getCustomEventStats(d, startTime, endTime),
         timeRange |-> [start |-> startTime, end |-> endTime],
         threw |-> \E i \in 1..Len(webVitals.byMetric) : webVitals.byMetric[i].threw]

----------------------------------------------------------------------------
(* Admission: checkRateLimit and cleanupRateLimits of the route modules *)

\* The route modules: /api/track, /api/events, and the second /api/events module
\* of the repository (with the admission written inline).
Routes == {"track", "events", "events2"}

MapSet(m, k, v) == [x \in (DOMAIN m) \cup {k} |-> IF x = k THEN v ELSE m[x]]
MapDelete(m, K) == [x \in (DOMAIN m) \ K |-> m[x]]
EmptyMap == [x \in {} |-> 0]

\* A checkRateLimit that compares with <= and so admits one call too many.
checkRateLimitOffByOne(m, ip, t, limit) ==
    IF ip \notin DOMAIN m \/ t - m[ip].timestamp > RATE_WINDOW
    THEN [allowed |-> TRUE, map |-> MapSet(m, ip, [count |-> 1, timestamp |-> t])]
    ELSE IF m[ip].count <= limit
    THEN [allowed |-> TRUE,
          map |-> MapSet(m, ip, [count |-> m[ip].count + 1, timestamp |-> m[ip].timestamp])]
    ELSE [allowed |-> FALSE, map |-> m]

\* A checkRateLimit that writes back the count it has read without raising it.
checkRateLimitLostUpdate(m, ip, t, limit) ==
    IF ip \notin DOMAIN m \/ t - m[ip].timestamp > RATE_WINDOW
    THEN [allowed |-> TRUE, map |-> MapSet(m, ip, [count |-> 1, timestamp |-> t])]
    ELSE IF m[ip].count < limit
    THEN [allowed |-> TRUE, map |-> m]
    ELSE [allowed |-> FALSE, map |-> m]

\* A checkRateLimit whose admitted calls restart the window.
checkRateLimitSliding(m, ip, t, limit) ==
    IF ip \notin DOMAIN m \/ t - m[ip].timestamp > RATE_WINDOW
    THEN [allowed |-> TRUE, map |-> MapSet(m, ip, [count |-> 1, timestamp |-> t])]
    ELSE IF m[ip].count < limit
    THEN [allowed |-> TRUE, map |-> MapSet(m, ip, [count |-> m[ip].count + 1, timestamp |-> t])]
    ELSE [allowed |-> FALSE, map |-> m]

\* checkRateLimit(ip): the decision, and the map it leaves.
checkRateLimit(m, ip, t, limit) ==
    IF ip \notin DOMAIN m \/ t - m[ip].timestamp > RATE_WINDOW
    THEN [allowed |-> TRUE, map |-> MapSet(m, ip, [count |-> 1, timestamp |-> t])]
    ELSE IF m[ip].count < limit
    THEN [allowed |-> TRUE,
          map |-> MapSet(m, ip, [count |-> m[ip].count + 1, timestamp |-> m[ip].timestamp])]
    ELSE [allowed |-> FALSE, map |-> m]

\* cleanupRateLimits(): drop the entries whose window has expired.
cleanupRateLimits(m, t) ==
    MapDelete(m, {ip \in DOMAIN m : t - m[ip].timestamp > RATE_WINDOW})

\* An inline admission that reads the entry without sweeping first.
admitInlineNoSweep(m, ip, t, limit) ==
    LET entry == IF ip \in DOMAIN m THEN m[ip] ELSE [count |-> 0, timestamp |-> t]
    IN  IF entry.count >= limit
        THEN [allowed |-> FALSE, map |-> m]
        ELSE [allowed |-> TRUE,
              map |-> MapSet(m, ip, [count |-> entry.count + 1,
                                     timestamp |-> entry.timestamp])]

\* The admission of the second events module: cleanupRateLimits(), then
\* rateLimits.get(ip) || {count: 0, timestamp: Date.now()}, the comparison with
\* the ceiling, and the update.
admitInline(m, ip, t, limit) ==
    LET swept == cleanupRateLimits(m, t)
        entry == IF ip \in DOMAIN swept THEN swept[ip] ELSE [count |-> 0, timestamp |-> t]
    IN  IF entry.count >= limit
        THEN [allowed |-> FALSE, map |-> swept]
        ELSE [allowed |-> TRUE,
              map |-> MapSet(swept, ip, [count |-> entry.count + 1,
                                         timestamp |-> entry.timestamp])]

\* req.headers.get('x-forwarded-for') || 'unknown'
ClientIp2(headers) == IF headers.xff # "" THEN headers.xff ELSE "unknown"

\* request.headers.get('x-forwarded-for') || get('x-real-ip') || '127.0.0.1'
ClientIp(headers) ==
    IF headers.xff # "" THEN headers.xff
    ELSE IF headers.xreal # "" THEN headers.xreal
    ELSE DEFAULT_IP

----------------------------------------------------------------------------
(* The track route: src/app/api/track/route.ts *)

WebVitalNames == {"LCP", "FCP", "CLS", "FID", "TTFB"}
WebVitalRatings == {"good", "needs-improvement", "poor"}

\* The filter predicate of validateWebVitals, for an entry that is an object.
MetricPasses(metric) ==
    /\ typeof(metric.name) = "string" /\ metric.name.str \in WebVitalNames
    /\ typeof(metric.value) = "number" /\ ~isNaN(metric.value)
    /\ ~(Truthy(metric.rating)
          /\ ~(typeof(metric.rating) = "string" /\ metric.rating.str \in WebVitalRatings))

\* validateWebVitals: [] for a missing or non-array value, else the entries that
\* pass; reading .name of a null entry throws a TypeError.
validateWebVitals(webVitals) ==
    IF webVitals.type # "array"
    THEN [threw |-> FALSE, items |-> <<>>]
    ELSE IF \E i \in 1..Len(webVitals.items) : webVitals.items[i].isNull
    THEN [threw |-> TRUE, items |-> <<>>]
    ELSE [threw |-> FALSE, items |-> SelectSeq(webVitals.items, MetricPasses)]

\* What ua-parser-js reports for the user-agent strings of the model: a desktop
\* browser (no device fields), a phone (every field), and a string it cannot parse.
UA_DESKTOP == "Mozilla/5.0 (Windows NT 10.0; Win64; x64) Chrome/120.0.0"
UA_PHONE == "Mozilla/5.0 (iPhone; CPU iPhone OS 17_0) Safari/17.0"
UA_OPAQUE == "Mozilla/5.0"

UAParser(userAgentString) ==
    CASE userAgentString = UA_DESKTOP ->
           [browser |-> [name |-> JsStr("Chrome"), version |-> JsStr("120.0.0")],
            os |-> [name |-> JsStr("Windows"), version |-> JsStr("10")],
            device |-> [type |-> JsUndefined, vendor |-> JsUndefined, model |-> JsUndefined]]
      [] userAgentString = UA_PHONE ->
           [browser |-> [name |-> JsStr("Mobile Safari"), version |-> JsStr("17.0")],
            os |-> [name |-> JsStr("iOS"), version |-> JsStr("17.0")],
            device |-> [type |-> JsStr("mobile"), vendor |-> JsStr("Apple"),
                        model |-> JsStr("iPhone")]]
      [] OTHER ->
           [browser |-> [name |-> JsUndefined, version |-> JsUndefined],
            os |-> [name |-> JsUndefined, version |-> JsUndefined],
            device |-> [type |-> JsUndefined, vendor |-> JsUndefined, model |-> JsUndefined]]

\* parseUserAgent: the parser's result, with the two defaults of the route.
parseUserAgent(userAgentString) ==
    LET result == UAParser(userAgentString)
    IN  [browser |-> IF Truthy(result.browser.name) THEN result.browser.name
                     ELSE JsStr("Unknown"),
         browserVersion |-> result.browser.version,
         os |-> result.os.name,
         osVersion |-> result.os.version,
         deviceType |-> IF Truthy(result.device.type) THEN result.device.type
                        ELSE JsStr("desktop"),
         deviceVendor |-> result.device.vendor,
         deviceModel |-> result.device.model]

\* A response: the status and the keys of its JSON body.
Response(d, status, json) ==
    [db |-> d, status |-> status, json |-> json, uaId |-> 0, pvId |-> 0, ceId |-> 0,
     wvIds |-> {}]

ERR_RATE == [error |-> "Rate limit exceeded"]
ERR_MISSING == [error |-> "Missing required fields"]
ERR_EVENTDATA == [error |-> "Event data must be an object"]
ERR_INTERNAL == [error |-> "Internal server error"]
OK_SUCCESS == [success |-> "true"]

\* The required-field check of the track route.
TrackMissing(body) ==
    ~Truthy(body.pageUrl) \/ ~Truthy(body.timestamp)
       \/ ~Truthy(body.sessionId) \/ ~Truthy(body.userAgent)

\* The writes of the track POST, from parseUserAgent to the response.  fault
\* names the statement the store fails, if any; the trigger runs inside the
\* INSERT INTO pageviews, so a fault of the sweep ("sweep") aborts that statement
\* as a fault of the insert itself ("pv") does.
trackWrite(d, ip, body, fault, t) ==
    IF fault.at = "ua" THEN Response(d, 500, ERR_INTERNAL)
    ELSE
      LET ua == insertUserAgent(d, parseUserAgent(body.userAgent.str))
      IN  IF fault.at \in {"pv", "sweep"}
          THEN [Response(ua.db, 500, ERR_INTERNAL) EXCEPT !.uaId = ua.id]
          ELSE
            LET pv == insertPageview(ua.db, body, ip, ua.id, t)
                valid == validateWebVitals(body.webVitals)
                wv == insertWebVitals(pv.db, valid.items, body.sessionId.str,
                                      body.pageUrl.str, t,
                                      IF fault.at = "wv" THEN fault.k ELSE 0)
            IN  IF valid.threw
                THEN [Response(pv.db, 500, ERR_INTERNAL) EXCEPT !.uaId = ua.id, !.pvId = pv.id]
                ELSE IF Len(valid.items) > 0
                THEN IF wv.threw
                     THEN [Response(wv.db, 500, ERR_INTERNAL)
                             EXCEPT !.uaId = ua.id, !.pvId = pv.id]
                     ELSE [Response(wv.db, 200, OK_SUCCESS)
                             EXCEPT !.uaId = ua.id, !.pvId = pv.id,
                                    !.wvIds = (pv.db.seq.web_vitals + 1)
                                                ..wv.db.seq.web_vitals]
                ELSE [Response(pv.db, 200, OK_SUCCESS) EXCEPT !.uaId = ua.id, !.pvId = pv.id]

\* A track POST that checks the required fields only after it has written.
trackPOSTValidatesLate(d, ip, body, fault, t) ==
    IF body.malformed THEN Response(d, 500, ERR_INTERNAL)
    ELSE LET r == trackWrite(d, ip, body, fault, t)
         IN  IF TrackMissing(body)
             THEN [r EXCEPT !.status = 400, !.json = ERR_MISSING]
             ELSE r

\* POST of the track route from "await request.json()" on: the store it leaves
\* and the response.
trackPOST(d, ip, body, fault, t) ==
    IF body.malformed THEN Response(d, 500, ERR_INTERNAL)
    ELSE IF TrackMissing(body) THEN Response(d, 400, ERR_MISSING)
    ELSE trackWrite(d, ip, body, fault, t)

----------------------------------------------------------------------------
(* The events route: app/api/events/route.ts *)

\* The two validations of the events route.
EventsMissing(body) ==
    ~Truthy(body.eventName) \/ ~Truthy(body.pageUrl)
       \/ ~Truthy(body.timestamp) \/ ~Truthy(body.sessionId)

EventDataRejected(body) == Truthy(body.eventData) /\ typeof(body.eventData) # "object"

\* An events POST that answers success when the store has failed its insert.
eventsPOSTHidesFault(d, body, fault) ==
    IF body.malformed THEN Response(d, 500, ERR_INTERNAL)
    ELSE IF EventsMissing(body) THEN Response(d, 400, ERR_MISSING)
    ELSE IF EventDataRejected(body) THEN Response(d, 400, ERR_EVENTDATA)
    ELSE IF fault.at = "ce" THEN Response(d, 200, OK_SUCCESS)
    ELSE LET ce == insertCustomEvent(d, body)
         IN  [Response(ce.db, 200, OK_SUCCESS) EXCEPT !.ceId = ce.id]

eventsPOST(d, body, fault) ==
    IF body.malformed THEN Response(d, 500, ERR_INTERNAL)
    ELSE IF EventsMissing(body) THEN Response(d, 400, ERR_MISSING)
    ELSE IF EventDataRejected(body) THEN Response(d, 400, ERR_EVENTDATA)
    ELSE IF fault.at = "ce" THEN Response(d, 500, ERR_INTERNAL)
    ELSE LET ce == insertCustomEvent(d, body)
         IN  [Response(ce.db, 200, OK_SUCCESS) EXCEPT !.ceId = ce.id]

----------------------------------------------------------------------------
(* The second events module: POST from "await req.json()" on *)

ERR_RATE2 == [success |-> "false", error |-> "Rate limit exceeded"]
ERR_MISSING2 ==
    [success |-> "false", error |-> "Missing required fields: sessionId, pageUrl, or eventName"]
ERR_INTERNAL2 == [success |-> "false", error |-> "Internal server error"]
OkEventId(id) == [success |-> "true", eventId |-> ToString(id)]

events2POST(d, body, fault, t) ==
    IF body.malformed THEN Response(d, 500, ERR_INTERNAL2)
    ELSE IF ~Truthy(body.sessionId) \/ ~Truthy(body.pageUrl) \/ ~Truthy(body.eventName)
    THEN Response(d, 400, ERR_MISSING2)
    ELSE IF fault.at = "ce" THEN Response(d, 500, ERR_INTERNAL2)
    ELSE LET ce == insertCustomEvent(d, [body EXCEPT !.timestamp = JsNum(t)])
         IN  [Response(ce.db, 200, OkEventId(ce.id)) EXCEPT !.ceId = ce.id]

----------------------------------------------------------------------------
(* Requests: what a client may send *)

Handlers == 1..NumHandlers

HEADERS_XFF == [xff |-> "10.0.0.1", xreal |-> ""]
HEADERS_XREAL == [xff |-> "", xreal |-> "10.0.0.2"]
HEADERS_NONE == [xff |-> "", xreal |-> ""]

Metric(name, value, rating) ==
    [isNull |-> FALSE, name |-> name, value |-> value, rating |-> rating]
NullMetric ==
    [isNull |-> TRUE, name |-> JsUndefined, value |-> JsUndefined, rating |-> JsUndefined]

NoVitals == [type |-> "undefined", items |-> <<>>]
Vitals(items) == [type |-> "array", items |-> items]

\* Metric values are whole numbers in the model.
VITALS_MIXED ==
    Vitals(<<Metric(JsStr("LCP"), JsNum(2500), JsStr("good")),
             Metric(JsStr("INVALID_METRIC"), JsNum(10), JsUndefined),
             Metric(JsStr("CLS"), JsNum(0), JsStr("good"))>>)
VITALS_INVALID ==
    Vitals(<<Metric(JsStr("INVALID_METRIC"), JsNum(2500), JsUndefined),
             Metric(JsStr("LCP"), JsStr("not-a-number"), JsUndefined)>>)
VITALS_BAD_RATING == Vitals(<<Metric(JsStr("FID"), JsNum(100), JsStr("bogus"))>>)
VITALS_EMPTY_RATING == Vitals(<<Metric(JsStr("LCP"), JsNum(2500), JsStr(""))>>)
VITALS_NULL_ENTRY ==
    Vitals(<<Metric(JsStr("LCP"), JsNum(2500), JsStr("good")), NullMetric>>)
VITALS_NOT_ARRAY == [type |-> "string", items |-> <<>>]
VITALS_NEGATIVE ==
    Vitals(<<Metric(JsStr("LCP"), JsNum(0 - 5), JsUndefined),
             Metric(JsStr("FCP"), JsNum(1800), JsStr("needs-improvement"))>>)

WebVitalBatches ==
    {NoVitals, VITALS_NOT_ARRAY, VITALS_MIXED, VITALS_INVALID, VITALS_BAD_RATING,
     VITALS_EMPTY_RATING, VITALS_NULL_ENTRY}

\* A client clock one second behind the server's.
Skewed(t) == t - SECOND

\* A client clock more than 30 days behind the server's.
Stale(t) == t - RETENTION - 1

Body(pageUrl, timestamp, sessionId, userAgent, referrer, webVitals, eventName, eventData) ==
    [malformed |-> FALSE, pageUrl |-> pageUrl, timestamp |-> timestamp,
     sessionId |-> sessionId, userAgent |-> userAgent, referrer |-> referrer,
     webVitals |-> webVitals, eventName |-> eventName, eventData |-> eventData]

\* A body request.json() cannot parse.
MalformedBody ==
    [Body(JsUndefined, JsUndefined, JsUndefined, JsUndefined, JsUndefined, NoVitals,
          JsUndefined, JsUndefined) EXCEPT !.malformed = TRUE]
NoBody == MalformedBody

\* A beacon as public/analytics.js sends it.
Beacon(timestamp, userAgent, referrer, webVitals) ==
    Body(JsStr("/a"), JsNum(timestamp), JsStr("s1"), JsStr(userAgent), referrer, webVitals,
         JsUndefined, JsUndefined)

\* Beacons with one of the four fields the route requires left out.
TrackBodiesMissing(t) ==
    {[Beacon(t, UA_DESKTOP, JsUndefined, NoVitals) EXCEPT !.pageUrl = JsUndefined],
     [Beacon(t, UA_DESKTOP, JsUndefined, NoVitals) EXCEPT !.sessionId = JsUndefined],
     [Beacon(t, UA_DESKTOP, JsUndefined, NoVitals) EXCEPT !.timestamp = JsUndefined],
     [Beacon(t, UA_DESKTOP, JsUndefined, NoVitals) EXCEPT !.userAgent = JsUndefined]}

\* The request of the README and of the route's tests: no timestamp and no user
\* agent in the body (the user agent travels in the request's header).
README_TRACK_BODY ==
    Body(JsStr("/a"), JsUndefined, JsStr("s1"), JsUndefined, JsStr("https://x.com"),
         NoVitals, JsUndefined, JsUndefined)

Event(timestamp, eventData) ==
    Body(JsStr("/a"), JsNum(timestamp), JsStr("s1"), JsUndefined, JsUndefined, NoVitals,
         JsStr("button_click"), eventData)

EventDataValues ==
    {JsUndefined, JsNull, JsObj("{buttonId:signup}"), JsStr("not-an-object"), JsStr(""),
     JsNum(7), JsNum(0), JsBool(TRUE), JsBool(FALSE)}

EventsBodiesMissing(t) ==
    {[Event(t, JsUndefined) EXCEPT !.eventName = JsUndefined],
     [Event(t, JsUndefined) EXCEPT !.pageUrl = JsUndefined],
     [Event(t, JsUndefined) EXCEPT !.timestamp = JsUndefined],
     [Event(t, JsUndefined) EXCEPT !.sessionId = JsUndefined]}

NoFault == [at |-> "none", k |-> 0]
FaultAt(at, k) == [at |-> at, k |-> k]

----------------------------------------------------------------------------
(* The state machine *)

NoJson == [pending |-> ""]

IdleHandler ==
    [pc |-> "idle", route |-> "-", ip |-> "-", k |-> 0, with |-> {}, status |-> 0,
     json |-> NoJson, ua |-> "", uaId |-> 0, pvId |-> 0, ceId |-> 0]

NoLast == [h |-> 0, route |-> "-", t |-> 0, body |-> NoBody, fault |-> NoFault,
           status |-> 0, json |-> NoJson, uaId |-> 0, pvId |-> 0, ceId |-> 0,
           wvIds |-> {}]

\* History: the number of the admit call within the window its source has open,
\* counted up to one past the ceiling, and whether that window was opened after
\* a window in which a call was denied.
CallNumber(route, ip) ==
    IF ip \notin DOMAIN calls[route]
    THEN [start |-> now, n |-> 1, reopened |-> FALSE]
    ELSE IF now - calls[route][ip].start > RATE_WINDOW
    THEN [start |-> now, n |-> 1, reopened |-> calls[route][ip].n > rateLimit]
    ELSE [start |-> calls[route][ip].start,
          n |-> IF calls[route][ip].n > rateLimit THEN calls[route][ip].n
                ELSE calls[route][ip].n + 1,
          reopened |-> calls[route][ip].reopened]

\* POST up to "await request.json()": the client address, then the admission.
\* cap bounds the number of requests of a run.
Start(h, route, headers, cap) ==
    LET ip == IF route = "events2" THEN ClientIp2(headers) ELSE ClientIp(headers)
        r == IF route = "events2"
             THEN admitInline(rateLimits[route], ip, now, RATE_LIMIT_DEFAULT)
             ELSE checkRateLimit(rateLimits[route], ip, now, rateLimit)
        c == CallNumber(route, ip)
        inFlight == {g \in Handlers \ {h} : hs[g].pc = "await"}
    IN  /\ hs[h].pc \in {"idle", "done"}
        /\ nreq < cap
        /\ nreq' = nreq + 1
        /\ rateLimits' = [rateLimits EXCEPT ![route] = r.map]
        /\ calls' = [calls EXCEPT ![route] = MapSet(@, ip, c)]
        /\ hs' = [g \in Handlers |->
                    IF g = h
                    THEN IF r.allowed
                         THEN [IdleHandler EXCEPT !.pc = "await", !.route = route,
                                                  !.ip = ip, !.k = c.n, !.with = inFlight]
                         ELSE [IdleHandler EXCEPT !.pc = "done", !.route = route,
                                                  !.ip = ip, !.k = c.n, !.status = 429,
                                                  !.json = IF route = "events2"
                                                           THEN ERR_RATE2 ELSE ERR_RATE]
                    ELSE IF r.allowed /\ g \in inFlight
                         THEN [hs[g] EXCEPT !.with = @ \cup {h}]
                         ELSE hs[g]]
        /\ UNCHANGED <<now, rateLimit, db, last, batches, page, report>>

TrackStart(h, headers, cap) == Start(h, "track", headers, cap)

EventsStart(h, headers, cap) == Start(h, "events", headers, cap)

Events2Start(h, headers, cap) == Start(h, "events2", headers, cap)

\* A handler that hands its unit of quota back when the request ends in a
\* validation or storage fault.
FinishRefunds(h, body, fault, r) ==
    /\ db' = r.db
    /\ hs' = [hs EXCEPT ![h] = [@ EXCEPT !.pc = "done", !.status = r.status,
                                         !.json = r.json, !.uaId = r.uaId,
                                         !.pvId = r.pvId, !.ceId = r.ceId,
                                         !.ua = IF r.uaId = 0 THEN ""
                                                ELSE body.userAgent.str]]
    /\ last' = [h |-> h, route |-> hs[h].route, t |-> now, body |-> body,
                fault |-> fault, status |-> r.status, json |-> r.json,
                uaId |-> r.uaId, pvId |-> r.pvId, ceId |-> r.ceId, wvIds |-> r.wvIds]
    /\ batches' = IF r.wvIds = {} THEN batches ELSE batches \cup {r.wvIds}
    /\ rateLimits' =
          IF r.status \in {400, 500} /\ hs[h].ip \in DOMAIN rateLimits[hs[h].route]
          THEN [rateLimits EXCEPT ![hs[h].route] =
                  IF @[hs[h].ip].count > 1
                  THEN MapSet(@, hs[h].ip, [@[hs[h].ip] EXCEPT !.count = @ - 1])
                  ELSE MapDelete(@, {hs[h].ip})]
          ELSE rateLimits
    /\ UNCHANGED <<now, rateLimit, calls, nreq, report>>

Finish(h, body, fault, r) ==
    /\ db' = r.db
    /\ hs' = [hs EXCEPT ![h] = [@ EXCEPT !.pc = "done", !.status = r.status,
                                         !.json = r.json, !.uaId = r.uaId,
                                         !.pvId = r.pvId, !.ceId = r.ceId,
                                         !.ua = IF r.uaId = 0 THEN ""
                                                ELSE body.userAgent.str]]
    /\ last' = [h |-> h, route |-> hs[h].route, t |-> now, body |-> body,
                fault |-> fault, status |-> r.status, json |-> r.json,
                uaId |-> r.uaId, pvId |-> r.pvId, ceId |-> r.ceId, wvIds |-> r.wvIds]
    /\ batches' = IF r.wvIds = {} THEN batches ELSE batches \cup {r.wvIds}
    /\ UNCHANGED <<now, rateLimit, rateLimits, calls, nreq, report>>

\* The rest of the track POST, run to its response once the body has arrived.
TrackBody(h, body, fault) ==
    /\ hs[h].pc = "await" /\ hs[h].route = "track"
    /\ Finish(h, body, fault, trackPOST(db, hs[h].ip, body, fault, now))
    /\ UNCHANGED page

\* The rest of the events POST.
EventsBody(h, body, fault) ==
    /\ hs[h].pc = "await" /\ hs[h].route = "events"
    /\ Finish(h, body, fault, eventsPOST(db, body, fault))
    /\ UNCHANGED page

\* The rest of the POST of the second events module.
Events2Body(h, body, fault) ==
    /\ hs[h].pc = "await" /\ hs[h].route = "events2"
    /\ Finish(h, body, fault, events2POST(db, body, fault, now))
    /\ UNCHANGED page

\* public/analytics.js, init(): trackPageview() sends the pageview beacon and
\* keeps window.__LWA_DATA for the web-vitals callbacks.
PageInit ==
    /\ page.loads < MaxLoads
    /\ page' = [page EXCEPT !.loads = @ + 1, !.data = TRUE,
                            !.outbox = @ \cup {Beacon(now, UA_DESKTOP, JsStr(""), Vitals(<<>>))}]
    /\ UNCHANGED <<now, rateLimit, rateLimits, db, hs, calls, last, batches, nreq, report>>

\* reportWebVital(metric): one more beacon to the track endpoint, with the
\* session and page of window.__LWA_DATA and the metric as its webVitals.
ReportWebVital(metric) ==
    /\ page.data
    /\ metric.name.str \notin page.reported
    /\ page' = [page EXCEPT !.reported = @ \cup {metric.name.str},
                            !.outbox = @ \cup {Beacon(now, UA_DESKTOP, JsUndefined,
                                                      Vitals(<<metric>>))}]
    /\ UNCHANGED <<now, rateLimit, rateLimits, db, hs, calls, last, batches, nreq, report>>

\* The rest of the track POST for a beacon the page has sent.
BeaconBody(h) ==
    \E body \in page.outbox :
        /\ hs[h].pc = "await" /\ hs[h].route = "track"
        /\ Finish(h, body, NoFault, trackPOST(db, hs[h].ip, body, NoFault, now))
        /\ page' = [page EXCEPT !.outbox = @ \ {body}]

\* setInterval(cleanupRateLimits, 5 * 60 * 1000), in each route module.
CleanupRateLimits(route) ==
    /\ rateLimits' = [rateLimits EXCEPT ![route] = cleanupRateLimits(@, now)]
    /\ rateLimits' # rateLimits
    /\ UNCHANGED <<now, rateLimit, db, hs, calls, last, batches, nreq, page, report>>

\* Time passes: one tick (up to MaxJitter of them), one admission window, or
\* the retention horizon.
AdvanceTick ==
    /\ (now - T0) % RATE_WINDOW < MaxJitter
    /\ now' = now + 1
    /\ UNCHANGED <<rateLimit, rateLimits, db, hs, calls, last, batches, nreq, page, report>>

AdvanceWindow ==
    /\ (now - T0) % RETENTION < RATE_WINDOW
    /\ now' = now + RATE_WINDOW
    /\ UNCHANGED <<rateLimit, rateLimits, db, hs, calls, last, batches, nreq, page, report>>

AdvanceRetention ==
    /\ now - T0 < RETENTION
    /\ now' = now + RETENTION
    /\ UNCHANGED <<rateLimit, rateLimits, db, hs, calls, last, batches, nreq, page, report>>

\* A browser that has not loaded a page, and a server that has served no read.
NoPage == [loads |-> 0, data |-> FALSE, reported |-> {}, outbox |-> {}]
NoReport == [op |-> "none"]

\* The state after the route modules have loaded, with RATE_LIMIT =
\* parseInt(process.env.RATE_LIMIT || '100', 10) read from the environment.
InitWith(limit) ==
    /\ now = T0
    /\ rateLimit = limit
    /\ rateLimits = [r \in Routes |-> EmptyMap]
    /\ calls = [r \in Routes |-> EmptyMap]
    /\ db = EmptyDb
    /\ hs = [h \in Handlers |-> IdleHandler]
    /\ last = NoLast
    /\ batches = {}
    /\ nreq = 0
    /\ page = NoPage
    /\ report = NoReport

Init == InitWith(RATE_LIMIT_DEFAULT)

\* The same with RATE_LIMIT set low in the environment.
InitLow == InitWith(LowRateLimit)

----------------------------------------------------------------------------
(* Spec: both routes under a mixed load, with the clock running *)

TrackBodies(t) ==
    {Beacon(t, UA_DESKTOP, JsUndefined, VITALS_MIXED),
     Beacon(Stale(t), UA_PHONE, JsStr("https://x.com"), NoVitals),
     README_TRACK_BODY}

EventsBodies(t) ==
    {Event(t, JsObj("{buttonId:signup}")), Event(Stale(t), JsUndefined),
     Event(t, JsStr("not-an-object"))}
    \cup EventsBodiesMissing(t)

Next ==
    \/ \E h \in Handlers : TrackStart(h, HEADERS_XFF, MaxRequests)
    \/ \E h \in Handlers : EventsStart(h, HEADERS_XFF, MaxRequests)
    \/ \E h \in Handlers, body \in TrackBodies(now) : TrackBody(h, body, NoFault)
    \/ \E h \in Handlers, body \in EventsBodies(now) : EventsBody(h, body, NoFault)
    \/ AdvanceTick
    \/ AdvanceRetention

Spec == Init /\ [][Next]_vars

----------------------------------------------------------------------------
(* SpecAdmit: one source against the track route with the default ceiling *)

MaxAdmitCalls == RATE_LIMIT_DEFAULT + MaxExtraCalls

NextAdmit ==
    \/ TrackStart(1, HEADERS_NONE, MaxAdmitCalls)
    \/ TrackBody(1, README_TRACK_BODY, NoFault)
    \/ CleanupRateLimits("track")
    \/ AdvanceTick
    \/ AdvanceWindow

SpecAdmit == Init /\ [][NextAdmit]_vars

----------------------------------------------------------------------------
(* SpecTrack: the track route with every kind of body and failing statements *)

TrackBodiesAll(t) ==
    {Beacon(t, UA_DESKTOP, JsUndefined, b) : b \in WebVitalBatches}
    \cup {Beacon(t, UA_PHONE, JsUndefined, NoVitals),
          Beacon(Stale(t), UA_PHONE, JsUndefined, VITALS_MIXED),
          README_TRACK_BODY, MalformedBody}
    \cup TrackBodiesMissing(t)

TrackFaults ==
    {NoFault, FaultAt("ua", 0), FaultAt("pv", 0), FaultAt("sweep", 0),
     FaultAt("wv", 1), FaultAt("wv", 2)}

NextTrack ==
    \/ \E h \in Handlers : TrackStart(h, HEADERS_XFF, MaxRequests)
    \/ \E h \in Handlers, body \in TrackBodiesAll(now), fault \in TrackFaults :
          TrackBody(h, body, fault)
    \/ AdvanceRetention

SpecTrack == Init /\ [][NextTrack]_vars

----------------------------------------------------------------------------
(* SpecEvents: the events route with every kind of payload *)

EventsBodiesAll(t) ==
    {Event(t, eventData) : eventData \in EventDataValues}
    \cup {MalformedBody}
    \cup EventsBodiesMissing(t)

EventsFaults == {NoFault, FaultAt("ce", 0)}

NextEvents ==
    \/ \E h \in Handlers : EventsStart(h, HEADERS_XFF, MaxRequests)
    \/ \E h \in Handlers, body \in EventsBodiesAll(now), fault \in EventsFaults :
          EventsBody(h, body, fault)
    \/ AdvanceTick

SpecEvents == Init /\ [][NextEvents]_vars

----------------------------------------------------------------------------
(* SpecRetain: the three route modules while the retention horizon passes, *)
(* the clock read on whole seconds                                         *)

TrackBodiesRetain(t) ==
    {Beacon(t, UA_DESKTOP, JsUndefined, VITALS_MIXED),
     Beacon(Skewed(t), UA_PHONE, JsStr("https://x.com"), NoVitals)}

EventsBodiesRetain(t) == {Event(t, JsUndefined), Event(Skewed(t), JsObj("{buttonId:signup}"))}

NextRetain ==
    \/ \E h \in Handlers : TrackStart(h, HEADERS_XFF, MaxRequests)
    \/ \E h \in Handlers : EventsStart(h, HEADERS_XFF, MaxRequests)
    \/ \E h \in Handlers : Events2Start(h, HEADERS_XFF, MaxRequests)
    \/ \E h \in Handlers, body \in TrackBodiesRetain(now) : TrackBody(h, body, NoFault)
    \/ \E h \in Handlers, body \in EventsBodiesRetain(now) : EventsBody(h, body, NoFault)
    \/ \E h \in Handlers, body \in EventsBodiesRetain(now) : Events2Body(h, body, NoFault)
    \/ AdvanceWindow
    \/ AdvanceRetention

SpecRetain == Init /\ [][NextRetain]_vars

----------------------------------------------------------------------------
(* SpecOutcomes: both routes with RATE_LIMIT low, every kind of request and *)
(* failing statement                                                        *)

TrackBodiesOutcomes(t) ==
    {Beacon(t, UA_DESKTOP, JsUndefined, VITALS_MIXED), README_TRACK_BODY, MalformedBody}

EventsBodiesOutcomes(t) ==
    {Event(t, JsObj("{buttonId:signup}")), Event(t, JsStr("not-an-object")),
     [Event(t, JsUndefined) EXCEPT !.eventName = JsUndefined], MalformedBody}

NextOutcomes ==
    \/ \E h \in Handlers : TrackStart(h, HEADERS_XFF, MaxRequests)
    \/ \E h \in Handlers : EventsStart(h, HEADERS_XFF, MaxRequests)
    \/ \E h \in Handlers, body \in TrackBodiesOutcomes(now), fault \in TrackFaults :
          TrackBody(h, body, fault)
    \/ \E h \in Handlers, body \in EventsBodiesOutcomes(now), fault \in EventsFaults :
          EventsBody(h, body, fault)
    \/ AdvanceTick

SpecOutcomes == InitLow /\ [][NextOutcomes]_vars

----------------------------------------------------------------------------
(* SpecSnippet: one page load of public/analytics.js against the track route *)

ReportedMetrics ==
    {Metric(JsStr("LCP"), JsNum(2500), JsStr("good")),
     Metric(JsStr("CLS"), JsNum(0), JsStr("good"))}

MaxBeacons == MaxRequests + 1

NextSnippet ==
    \/ PageInit
    \/ \E metric \in ReportedMetrics : ReportWebVital(metric)
    \/ \E h \in Handlers : TrackStart(h, HEADERS_XFF, MaxBeacons)
    \/ \E h \in Handlers : BeaconBody(h)
    \/ AdvanceTick

SpecSnippet == Init /\ [][NextSnippet]_vars

----------------------------------------------------------------------------
(* SpecSources: requests from several client addresses *)

SourceHeaders == {HEADERS_XFF, HEADERS_XREAL, HEADERS_NONE}

NextSources ==
    \/ \E h \in Handlers, headers \in SourceHeaders : TrackStart(h, headers, MaxRequests)
    \/ \E h \in Handlers, headers \in SourceHeaders : EventsStart(h, headers, MaxRequests)
    \/ \E h \in Handlers :
          TrackBody(h, Beacon(now, UA_PHONE, JsStr("https://x.com"), VITALS_MIXED), NoFault)
    \/ \E h \in Handlers : EventsBody(h, Event(now, JsObj("{buttonId:signup}")), NoFault)
    \/ AdvanceTick

SpecSources == Init /\ [][NextSources]_vars

----------------------------------------------------------------------------
(* SpecReport: the dashboard's reads over stores the routes have written *)

TrackRequest(t, body) == [route |-> "track", t |-> t, body |-> body]
EventsRequest(t, body) == [route |-> "events", t |-> t, body |-> body]

\* The store after the routes have answered the requests, in their order; the
\* replay ends with the first request that is not answered with 200.
RECURSIVE Ingest(_, _)
Ingest(d, requests) ==
    IF requests = <<>> THEN d
    ELSE LET r == Head(requests)
             answered == IF r.route = "track"
                         THEN trackPOST(d, DEFAULT_IP, r.body, NoFault, r.t)
                         ELSE eventsPOST(d, r.body, NoFault)
         IN  IF answered.status # 200 THEN answered.db
             ELSE Ingest(answered.db, Tail(requests))

LcpOf(value) == Vitals(<<Metric(JsStr("LCP"), JsNum(value), JsStr("good"))>>)

\* Three pageviews: referrer null, a referrer, referrer left out.
REFERRER_REQUESTS ==
    <<TrackRequest(T0, Beacon(T0, UA_DESKTOP, JsNull, NoVitals)),
      TrackRequest(T0, Beacon(T0, UA_DESKTOP, JsStr("https://x.com"), NoVitals)),
      TrackRequest(T0, Beacon(T0, UA_DESKTOP, JsUndefined, NoVitals))>>

\* Facts of all three kinds on two days, the first at the day's first instant.
EDGE_REQUESTS ==
    <<TrackRequest(T0, Beacon(T0, UA_DESKTOP, JsStr(""), LcpOf(2600))),
      EventsRequest(T0, Event(T0, JsObj("{buttonId:signup}"))),
      TrackRequest(T0 + 1, [Beacon(T0 + 1, UA_PHONE, JsStr("https://x.com"), VITALS_MIXED)
                               EXCEPT !.pageUrl = JsStr("/b")]),
      TrackRequest(T0 + DAY,
                   Beacon(T0 + DAY, UA_OPAQUE, JsStr("https://x.com"),
                          Vitals(<<Metric(JsStr("LCP"), JsNum(2000), JsStr("poor")),
                                   Metric(JsStr("FID"), JsNum(400), JsStr("good"))>>))),
      EventsRequest(T0 + DAY, Event(T0 + DAY, JsUndefined))>>

\* Eleven referrers, the first of them seen twice.
NumReferrers == 11
MANY_REQUESTS ==
    [i \in 1..(NumReferrers + 1) |->
        TrackRequest(T0, Beacon(T0, UA_DESKTOP,
                                JsStr("https://r" \o ToString(IF i > NumReferrers THEN 1 ELSE i)
                                         \o ".com"),
                                NoVitals))]

ReportStores ==
    {EmptyDb, Ingest(EmptyDb, REFERRER_REQUESTS), Ingest(EmptyDb, EDGE_REQUESTS),
     Ingest(EmptyDb, MANY_REQUESTS)}

\* Window bounds on both sides of the stored timestamps.
WindowEdges == {T0 - 1, T0, T0 + 1, T0 + DAY, T0 + DAY + 1}

\* Ascending lists: none, 1..10, 1..MaxLen, and one with equal values.
SortedArrays ==
    {<<>>, [i \in 1..10 |-> i], [i \in 1..MaxLen |-> i], <<100, 100, 2600, 4000>>}

Percentiles == (0 - 1)..101

\* The dashboard route's read: getDashboardData over the window it was asked for.
GetDashboardData(startTime, endTime) ==
    /\ report' = [op |-> "getDashboardData", startTime |-> startTime, endTime |-> endTime,
                  data |-> getDashboardData(db, startTime, endTime)]
    /\ UNCHANGED <<now, rateLimit, rateLimits, db, hs, calls, last, batches, nreq, page>>

\* One call of calculatePercentile.
CalculatePercentile(sortedArray, percentile) ==
    /\ report' = [op |-> "calculatePercentile", sortedArray |-> sortedArray,
                  percentile |-> percentile,
                  result |-> calculatePercentile(sortedArray, percentile)]
    /\ UNCHANGED <<now, rateLimit, rateLimits, db, hs, calls, last, batches, nreq, page>>

InitReport ==
    /\ now = T0 + DAY + SECOND
    /\ rateLimit = RATE_LIMIT_DEFAULT
    /\ rateLimits = [r \in Routes |-> EmptyMap]
    /\ calls = [r \in Routes |-> EmptyMap]
    /\ db \in ReportStores
    /\ hs = [h \in Handlers |-> IdleHandler]
    /\ last = NoLast
    /\ batches = {}
    /\ nreq = 0
    /\ page = NoPage
    /\ report = NoReport

NextReport ==
    \/ \E startTime \in WindowEdges, endTime \in WindowEdges :
          GetDashboardData(startTime, endTime)
    \/ \E sortedArray \in SortedArrays, percentile \in Percentiles :
          CalculatePercentile(sortedArray, percentile)

SpecReport == InitReport /\ [][NextReport]_vars

----------------------------------------------------------------------------
(* SpecQuota: the three admission maps under one sequence of (source, time)
   calls, with RATE_LIMIT set between 1 and MaxCeiling *)

QuotaSources == {"10.0.0.1", "10.0.0.2"}

\* One admit call of a source at the three routes: checkRateLimit(ip) of the
\* track and the events module, and the inline admission of the second events
\* module. report keeps the maps before and after, and the decisions.
Admit(ip) ==
    LET track == checkRateLimit(rateLimits["track"], ip, now, rateLimit)
        events == checkRateLimit(rateLimits["events"], ip, now, rateLimit)
        events2 == admitInline(rateLimits["events2"], ip, now, rateLimit)
    IN  /\ rateLimits' = [r \in Routes |->
                            CASE r = "track" -> track.map
                              [] r = "events" -> events.map
                              [] OTHER -> events2.map]
        /\ report' = [op |-> "admit", ip |-> ip, t |-> now,
                      before |-> rateLimits, after |-> rateLimits',
                      allowed |-> [r \in Routes |->
                                     CASE r = "track" -> track.allowed
                                       [] r = "events" -> events.allowed
                                       [] OTHER -> events2.allowed]]
        /\ UNCHANGED <<now, rateLimit, db, hs, calls, last, batches, nreq, page>>

InitQuota ==
    /\ now = T0
    /\ rateLimit \in 1..MaxCeiling
    /\ rateLimits = [r \in Routes |-> EmptyMap]
    /\ calls = [r \in Routes |-> EmptyMap]
    /\ db = EmptyDb
    /\ hs = [h \in Handlers |-> IdleHandler]
    /\ last = NoLast
    /\ batches = {}
    /\ nreq = 0
    /\ page = NoPage
    /\ report = NoReport

\* The timer of the track module sweeps at any point; the map of the events
\* module is left unswept.
NextQuota ==
    \/ \E ip \in QuotaSources : Admit(ip)
    \/ CleanupRateLimits("track")
    \/ AdvanceTick
    \/ AdvanceWindow

SpecQuota == InitQuota /\ [][NextQuota]_vars

----------------------------------------------------------------------------
(* SpecConcurrent: two handlers of one source interleaving at their awaits, up
   to the ceiling and past it, at the track route or at the second events
   module *)

NextConcurrent ==
    \/ \E h \in Handlers :
          calls["events2"] = EmptyMap /\ TrackStart(h, HEADERS_XFF, MaxAdmitCalls)
    \/ \E h \in Handlers :
          calls["track"] = EmptyMap /\ Events2Start(h, HEADERS_XFF, MaxAdmitCalls)
    \/ \E h \in Handlers : TrackBody(h, README_TRACK_BODY, NoFault)
    \/ \E h \in Handlers :
          Events2Body(h, [Event(now, JsUndefined) EXCEPT !.eventName = JsUndefined], NoFault)

SpecConcurrent == Init /\ [][NextConcurrent]_vars

\* SpecQuotaLive: the same calls, with the timers of the two modules that set
\* one (setInterval(cleanupRateLimits, 5 * 60 * 1000)) firing again and again.
\* The second events module sets no timer: its sweep runs inside its POST.
NextQuotaLive ==
    \/ NextQuota
    \/ CleanupRateLimits("events")

SpecQuotaLive ==
    /\ InitQuota
    /\ [][NextQuotaLive]_vars
    /\ WF_vars(CleanupRateLimits("track"))
    /\ WF_vars(CleanupRateLimits("events"))

----------------------------------------------------------------------------
(* SpecVitals: pageview beacons with every kind of web-vitals batch *)

NextVitals ==
    \/ \E h \in Handlers : TrackStart(h, HEADERS_XFF, MaxRequests)
    \/ \E h \in Handlers, b \in WebVitalBatches \cup {VITALS_NEGATIVE} :
          TrackBody(h, Beacon(now, UA_DESKTOP, JsUndefined, b), NoFault)

SpecVitals == Init /\ [][NextVitals]_vars

----------------------------------------------------------------------------
(* Properties *)

StoreRows == db.user_agents \cup db.pageviews \cup db.web_vitals \cup db.custom_events

\* The request most recently answered was a track (events) request whose body
\* parsed and whose statements the store did not fail.
LastTrack == last.route = "track" /\ ~last.body.malformed /\ last.fault = NoFault
LastEvents == last.route = "events" /\ ~last.body.malformed /\ last.fault = NoFault

\* C1: with ceiling 100 and a 60 s window, the first 100 admit calls of a source
\* within one window are allowed, every later call within that window is
\* answered 429, and the first call after the window has elapsed is allowed.
C1_AdmitCeiling ==
    \A h \in Handlers :
        hs[h].route = "track" =>
            /\ hs[h].k <= RATE_LIMIT_DEFAULT => hs[h].status # 429
            /\ hs[h].k > RATE_LIMIT_DEFAULT => hs[h].status = 429 /\ hs[h].json = ERR_RATE

\* A source that was denied in one window is admitted by its first call after it.
C1_Witness ==
    \E h \in Handlers :
        /\ hs[h].route = "track" /\ hs[h].k = 1 /\ hs[h].pc = "await"
        /\ hs[h].ip \in DOMAIN calls["track"]
        /\ calls["track"][hs[h].ip].reopened

\* C2: no two rows of user_agents hold the same attribute tuple, NULLs
\* comparing as equal.
C2_UniqueTuples ==
    \A r1, r2 \in db.user_agents : UaTuple(r1) = UaTuple(r2) => r1 = r2

\* C3: two requests in flight together that resolve the same user agent and
\* write their pageviews get the same key, and one row holds the tuple.
C3_ConcurrentResolve ==
    \A h1, h2 \in Handlers :
        (/\ h1 # h2
         /\ hs[h1].pc = "done" /\ hs[h2].pc = "done"
         /\ h2 \in hs[h1].with /\ h1 \in hs[h2].with
         /\ hs[h1].pvId # 0 /\ hs[h2].pvId # 0
         /\ hs[h1].ua = hs[h2].ua)
        => /\ hs[h1].uaId = hs[h2].uaId
           /\ Cardinality({r \in db.user_agents :
                              UaTuple(r) = UaTuple(UaBind(parseUserAgent(hs[h1].ua)))}) <= 1

\* C4: once the sweep has run (a pageview insert has just fired the trigger), no
\* pageview, web vital or custom event older than now - 30 days is in the store.
C4_NothingPastHorizon ==
    (last.route = "track" /\ last.pvId # 0 /\ last.t = now)
    => \A r \in db.pageviews \cup db.web_vitals \cup db.custom_events :
          ~(r.timestamp < now - RETENTION)

\* The entries of a batch that are valid by the specification: a known metric
\* name, a numeric value, and a rating of the enum if one is present.
SpecValid(metric) ==
    /\ ~metric.isNull
    /\ metric.name.type = "string" /\ metric.name.str \in WebVitalNames
    /\ metric.value.type = "number" /\ ~isNaN(metric.value)
    /\ metric.rating.type # "undefined"
          => metric.rating.type = "string" /\ metric.rating.str \in WebVitalRatings

\* The metric names of the web_vitals rows with the keys ids, in key order.
StoredNames(ids) ==
    [i \in 1..Cardinality(ids) |->
        (CHOOSE r \in db.web_vitals : r.id = SetMin(ids) + i - 1).metric_name]

MetricName(metric) == metric.name.str

\* C5: a track request with a web-vitals batch is answered 200, its pageview is
\* written, and its web_vitals rows are exactly the valid entries of the batch.
C5_ValidEntriesPersisted ==
    (LastTrack /\ ~TrackMissing(last.body) /\ last.body.webVitals.type = "array")
    => /\ last.status = 200
       /\ last.pvId # 0
       /\ last.wvIds \subseteq {r.id : r \in db.web_vitals}
       /\ StoredNames(last.wvIds)
             = [i \in 1..Len(SelectSeq(last.body.webVitals.items, SpecValid)) |->
                   MetricName(SelectSeq(last.body.webVitals.items, SpecValid)[i])]

\* C6: the step that answers a request with 400 leaves the store as it was.
C6_RejectedWritesNothing ==
    [][\A h \in Handlers :
          (hs[h].pc = "await" /\ hs'[h].pc = "done" /\ hs'[h].status = 400) => db' = db]_vars

\* A request was answered 400 while the store held rows.
C6_Witness ==
    /\ last.status = 400 /\ last.route \in Routes
    /\ StoreRows # {}

\* C7: an events request whose eventData is a string, a number or a boolean is
\* answered 400 and writes nothing; one without eventData is answered 200 and
\* its row has no payload.
C7_EventDataMustBeObject ==
    (LastEvents /\ Truthy(last.body.eventName) /\ Truthy(last.body.pageUrl)
       /\ Truthy(last.body.timestamp) /\ Truthy(last.body.sessionId))
    => /\ last.body.eventData.type \in {"string", "number", "boolean"}
            => last.status = 400 /\ last.ceId = 0
       /\ last.body.eventData = JsUndefined
            => /\ last.status = 200
               /\ \E r \in db.custom_events : r.id = last.ceId /\ r.event_data = NULL

\* C8: a track response of status 200 carries the key of the pageview written.
C8_ResponseCarriesPageviewId ==
    (last.route = "track" /\ last.status = 200)
    => "pageviewId" \in DOMAIN last.json

\* C9: a track request without sessionId or pageUrl is answered 400; one with
\* both, no timestamp and no user agent in its body is answered 200 and its
\* pageview is written.
C9_RequiredFields ==
    (LastTrack /\ last.body.webVitals = NoVitals)
    => /\ (~Truthy(last.body.sessionId) \/ ~Truthy(last.body.pageUrl))
            => last.status = 400
       /\ (/\ Truthy(last.body.sessionId) /\ Truthy(last.body.pageUrl)
           /\ last.body.timestamp = JsUndefined /\ last.body.userAgent = JsUndefined)
            => last.status = 200 /\ last.pvId # 0

\* C10: the web_vitals rows of a request are all in the store or none is: every
\* row belongs to a committed batch, a committed batch holds every valid entry
\* of its request, and a batch is present whole or not at all.
C10_BatchAtomic ==
    LET ids == {r.id : r \in db.web_vitals}
    IN  /\ \A r \in db.web_vitals : \E B \in batches : r.id \in B
        /\ \A B \in batches : B \subseteq ids \/ B \cap ids = {}
        /\ last.wvIds # {}
              => Cardinality(last.wvIds) = Len(validateWebVitals(last.body.webVitals).items)
        /\ (last.route = "track" /\ last.status = 500) => last.wvIds = {}

\* The store failed the second insert of a batch of two valid entries, and no
\* web_vitals row is left of the request.
C10_Witness ==
    /\ last.route = "track" /\ last.fault = FaultAt("wv", 2) /\ last.status = 500
    /\ last.pvId # 0
    /\ Len(validateWebVitals(last.body.webVitals).items) >= 2
    /\ db.web_vitals = {}

Facts == db.pageviews \cup db.web_vitals \cup db.custom_events

\* C11: after a completed pageview write and after a completed custom-event
\* write, no fact older than now - 30 days is in the store.
C11_SweepOnEveryWrite ==
    (last.status = 200 /\ last.t = now)
    => \A r \in Facts : ~(r.timestamp < now - RETENTION)

\* C12: a fault of the sweep does not fail the pageview write that fired it:
\* the request is answered 200 and its pageview is in the store.
C12_SweepFaultSwallowed ==
    (/\ last.route = "track" /\ ~last.body.malformed /\ ~TrackMissing(last.body)
     /\ last.body.timestamp.num = last.t
     /\ last.fault.at = "sweep")
    => /\ last.status = 200
       /\ \E r \in db.pageviews : r.id = last.pvId

\* C13: the step of a track request that ends in a storage fault leaves the
\* store as it was.
C13_FaultLeavesNothing ==
    [][(/\ last'.route = "track" /\ last'.status = 500
        /\ last'.fault.at \in {"ua", "pv", "wv"}
        /\ ~last'.body.malformed
        /\ ~validateWebVitals(last'.body.webVitals).threw
        /\ hs[last'.h].pc = "await" /\ hs'[last'.h].pc = "done")
       => db' = db]_vars

\* The request most recently answered failed a validation of its route.
LastInvalid ==
    IF last.route = "track" THEN TrackMissing(last.body)
    ELSE EventsMissing(last.body) \/ EventDataRejected(last.body)

\* The store failed a statement the request most recently answered has run.
LastStorageFault ==
    /\ ~LastInvalid
    /\ IF last.route = "track"
       THEN \/ last.fault.at \in {"ua", "pv", "sweep"}
            \/ /\ last.fault.at = "wv"
               /\ ~validateWebVitals(last.body.webVitals).threw
               /\ last.fault.k \in 1..Len(validateWebVitals(last.body.webVitals).items)
       ELSE last.fault.at = "ce"

C15_ServerTimestamps ==
    last.status = 200
    => /\ \A r \in db.pageviews : r.id = last.pvId => r.timestamp = last.t
       /\ \A r \in db.web_vitals : r.id \in last.wvIds => r.timestamp = last.t
       /\ \A r \in db.custom_events : r.id = last.ceId => r.timestamp = last.t

\* C16: the store holds no more pageviews than pages were loaded.
C16_OnePageviewPerLoad == Cardinality(db.pageviews) <= page.loads

\* The client addresses of the requests.
SourceIps == {ClientIp(headers) : headers \in SourceHeaders}

\* C17: no column of any row holds a client address; the ip_hash of a pageview
\* is hashIp of its request's address, the same for the same address.
C17_NoRawIp ==
    /\ \A r \in db.pageviews :
          /\ r.ip_hash \notin SourceIps
          /\ r.page_url \notin SourceIps /\ r.session_id \notin SourceIps
          /\ r.referrer \notin SourceIps
    /\ \A r \in db.web_vitals :
          /\ r.page_url \notin SourceIps /\ r.session_id \notin SourceIps
          /\ r.metric_name \notin SourceIps /\ r.metric_rating \notin SourceIps
    /\ \A r \in db.custom_events :
          /\ r.page_url \notin SourceIps /\ r.session_id \notin SourceIps
          /\ r.event_name \notin SourceIps /\ r.event_data \notin SourceIps
    /\ \A r \in db.user_agents : \A x \in {UaTuple(r)[i] : i \in 1..7} : x \notin SourceIps
    /\ \A h \in Handlers : \A r \in db.pageviews :
          (hs[h].pc = "done" /\ hs[h].route = "track" /\ r.id = hs[h].pvId)
          => r.ip_hash = hashIp(hs[h].ip)
    /\ \A h1, h2 \in Handlers : \A r1, r2 \in db.pageviews :
          (/\ hs[h1].pc = "done" /\ hs[h1].route = "track" /\ r1.id = hs[h1].pvId
           /\ hs[h2].pc = "done" /\ hs[h2].route = "track" /\ r2.id = hs[h2].pvId
           /\ hs[h1].ip = hs[h2].ip)
          => r1.ip_hash = r2.ip_hash

\* Two pageviews of one client address are in the store.
C17_Witness ==
    \E h1, h2 \in Handlers : \E r1, r2 \in db.pageviews :
        /\ h1 # h2 /\ r1 # r2
        /\ hs[h1].pc = "done" /\ hs[h1].route = "track" /\ r1.id = hs[h1].pvId
        /\ hs[h2].pc = "done" /\ hs[h2].route = "track" /\ r2.id = hs[h2].pvId
        /\ hs[h1].ip = hs[h2].ip /\ hs[h1].ip # DEFAULT_IP

\* The nearest rank of percentile p among n values: the least whole number k
\* with k >= p * n / 100.
NearestRank(p, n) == CHOOSE k \in 0..n : 100 * k >= p * n /\ \A j \in 0..(k - 1) : 100 * j < p * n

ReportedPageviews ==
    {r \in db.pageviews : report.startTime <= r.timestamp /\ r.timestamp <= report.endTime}

\* The label a pageview is counted under in the referrer section.
ReferrerLabel(r) == IF r.referrer = NULL THEN "Direct" ELSE r.referrer

\* C19: referrer stats bucket every pageview whose referrer is missing or null
\* under the single label "Direct"; pageviews with referrers null, "https://x.com"
\* and none aggregate to Direct = 2 and "https://x.com" = 1; the list is in
\* descending order of count and holds the top 10.
C19_DirectBucket ==
    report.op = "getDashboardData" =>
        LET list == report.data.referrers.byReferrer
            labels == {ReferrerLabel(r) : r \in ReportedPageviews}
            CountOf(label) == Cardinality({r \in ReportedPageviews : ReferrerLabel(r) = label})
            listed == {list[i].referrer : i \in 1..Len(list)}
        IN  /\ Len(list) = (IF Cardinality(labels) < 10 THEN Cardinality(labels) ELSE 10)
            /\ listed \subseteq labels
            /\ Cardinality(listed) = Len(list)
            /\ \A i \in 1..Len(list) : list[i].count = CountOf(list[i].referrer)
            /\ \A i, j \in 1..Len(list) : i < j => list[i].count >= list[j].count
            /\ \A label \in labels \ listed :
                  \A i \in 1..Len(list) : list[i].count >= CountOf(label)
            /\ (/\ db = Ingest(EmptyDb, REFERRER_REQUESTS)
                /\ report.startTime <= T0
                /\ T0 <= report.endTime)
                  => list = <<[referrer |-> "Direct", count |-> 2],
                              [referrer |-> "https://x.com", count |-> 1]>>

\* A report over the three pageviews, two of them without referrer.
C19_Witness ==
    /\ report.op = "getDashboardData"
    /\ {r.referrer : r \in ReportedPageviews} = {NULL, "https://x.com"}
    /\ Cardinality(ReportedPageviews) = 3
    /\ report.data.referrers.byReferrer[1] = [referrer |-> "Direct", count |-> 2]

\* The rows of a table whose timestamp lies in the window of the report, both
\* bounds included.
Reported(table) ==
    {r \in table : report.startTime <= r.timestamp /\ r.timestamp <= report.endTime}

\* A section's list, given as [key, count] entries, counts the reported rows,
\* given as [key, row] pairs: every group of rows is listed with its number of
\* rows (the stores of the model stay below the LIMIT of the sections checked
\* this way).
CountsReported(entries, keyed) ==
    /\ {entries[i].key : i \in 1..Len(entries)} = {x.key : x \in keyed}
    /\ \A i \in 1..Len(entries) :
          entries[i].count = Cardinality({x \in keyed : x.key = entries[i].key})
    /\ Sum([i \in 1..Len(entries) |-> entries[i].count]) = Cardinality(keyed)

UserAgentOf(r) == CHOOSE ua \in db.user_agents : ua.id = r.user_agent_id

\* C18: for every window [start, end], every section of the report counts a fact
\* if and only if start <= timestamp <= end (facts exactly at start or at end
\* are included), the pageview total equals the sum of the per-day counts, and a
\* window that matches no facts yields zero counts and empty lists, not a fault.
C18_InclusiveWindow ==
    report.op = "getDashboardData" =>
        LET data == report.data
            pv == Reported(db.pageviews)
            wv == Reported(db.web_vitals)
            ce == Reported(db.custom_events)
            byDay == data.pageviews.byDay
            byPage == data.pageviews.byPage
            byReferrer == data.referrers.byReferrer
            byBrowser == data.devices.byBrowser
            byOS == data.devices.byOS
            byDeviceType == data.devices.byDeviceType
            byMetric == data.webVitals.byMetric
            byEvent == data.customEvents.byEvent
            recent == data.customEvents.recent
        IN  /\ ~data.threw
            /\ data.pageviews.total = Cardinality(pv)
            /\ CountsReported([i \in 1..Len(byDay) |->
                                  [key |-> byDay[i].date, count |-> byDay[i].count]],
                              {[key |-> r.timestamp \div DAY, row |-> r] : r \in pv})
            /\ CountsReported([i \in 1..Len(byPage) |->
                                  [key |-> byPage[i].pageUrl, count |-> byPage[i].count]],
                              {[key |-> r.page_url, row |-> r] : r \in pv})
            /\ \A i \in 1..Len(byReferrer) :
                  byReferrer[i].count =
                      Cardinality({r \in pv : ReferrerLabel(r) = byReferrer[i].referrer})
            /\ CountsReported([i \in 1..Len(byBrowser) |->
                                  [key |-> byBrowser[i].browser, count |-> byBrowser[i].count]],
                              {[key |-> UserAgentOf(r).browser, row |-> r] : r \in pv})
            /\ CountsReported([i \in 1..Len(byOS) |->
                                  [key |-> byOS[i].os, count |-> byOS[i].count]],
                              {[key |-> IF UserAgentOf(r).os = NULL THEN "Unknown"
                                        ELSE UserAgentOf(r).os,
                                row |-> r] : r \in pv})
            /\ CountsReported([i \in 1..Len(byDeviceType) |->
                                  [key |-> byDeviceType[i].deviceType,
                                   count |-> byDeviceType[i].count]],
                              {[key |-> UserAgentOf(r).device_type, row |-> r] : r \in pv})
            /\ CountsReported([i \in 1..Len(byMetric) |->
                                  [key |-> byMetric[i].name,
                                   count |-> byMetric[i].average.count]],
                              {[key |-> r.metric_name, row |-> r] : r \in wv})
            /\ CountsReported([i \in 1..Len(byEvent) |->
                                  [key |-> byEvent[i].eventName, count |-> byEvent[i].count]],
                              {[key |-> r.event_name, row |-> r] : r \in ce})
            /\ Len(recent) = Cardinality(ce)
            /\ {recent[i].timestamp : i \in 1..Len(recent)} = {r.timestamp : r \in ce}
            /\ (pv = {} /\ wv = {} /\ ce = {}) =>
                  /\ data.pageviews = [total |-> 0, byDay |-> <<>>, byPage |-> <<>>]
                  /\ data.referrers = [byReferrer |-> <<>>]
                  /\ data.devices = [byBrowser |-> <<>>, byOS |-> <<>>, byDeviceType |-> <<>>]
                  /\ data.webVitals = [byMetric |-> <<>>]
                  /\ data.customEvents = [byEvent |-> <<>>, recent |-> <<>>]

\* A report whose window starts and ends on the timestamps of stored facts of
\* all three kinds, and counts them.
C18_Witness ==
    /\ report.op = "getDashboardData"
    /\ report.startTime < report.endTime
    /\ \A table \in {db.pageviews, db.web_vitals, db.custom_events} :
          /\ \E r \in table : r.timestamp = report.startTime
          /\ \E r \in table : r.timestamp = report.endTime
    /\ report.data.pageviews.total = 3
    /\ Len(report.data.pageviews.byDay) = 2
    /\ Len(report.data.customEvents.recent) = 2

\* m is the median of the values of the rows: at least half of the rows lie at
\* or below it, fewer than half lie below it.
IsMedian(m, rows) ==
    /\ \E r \in rows : r.metric_value = m
    /\ 2 * Cardinality({r \in rows : r.metric_value <= m}) >= Cardinality(rows)
    /\ 2 * Cardinality({r \in rows : r.metric_value < m}) < Cardinality(rows)

\* C21: for every metric observed in the window, the rating returned by
\* web-vitals stats is derived from the median of the in-window values against
\* the threshold table (good if median <= good bound, needs-improvement if
\* median <= second bound, else poor), whatever rating the client supplied:
\* median LCP 2600 gives needs-improvement and median LCP 2000 gives good.
C21_RatingFromMedian ==
    report.op = "getDashboardData" =>
        LET byMetric == report.data.webVitals.byMetric
            wv == Reported(db.web_vitals)
        IN  /\ {byMetric[i].name : i \in 1..Len(byMetric)} = {r.metric_name : r \in wv}
            /\ \A i \in 1..Len(byMetric) :
                  LET entry == byMetric[i]
                      bound == METRIC_THRESHOLDS[entry.name]
                  IN  /\ IsMedian(entry.median, {r \in wv : r.metric_name = entry.name})
                      /\ entry.rating = "good" <=> entry.median <= bound.good
                      /\ entry.rating = "needs-improvement" <=>
                            (entry.median > bound.good /\ entry.median <= bound.needsImprovement)
                      /\ entry.rating = "poor" <=> entry.median > bound.needsImprovement
                      /\ (entry.name = "LCP" /\ entry.median = 2600) =>
                            entry.rating = "needs-improvement"
                      /\ (entry.name = "LCP" /\ entry.median = 2000) => entry.rating = "good"

\* A report over one LCP value of 2600 that the client rated good.
C21_Witness ==
    /\ report.op = "getDashboardData"
    /\ \E r \in Reported(db.web_vitals) :
          r.metric_name = "LCP" /\ r.metric_value = 2600 /\ r.metric_rating = "good"
    /\ \E i \in 1..Len(report.data.webVitals.byMetric) :
          LET entry == report.data.webVitals.byMetric[i]
          IN  entry.name = "LCP" /\ entry.median = 2600 /\ entry.rating = "needs-improvement"

\* C22: for any ceiling >= 1 and any sequence of admit calls, every entry of
\* the admission map keeps 1 <= count <= ceiling; an admit inside the window
\* never changes the entry's windowStart, and a denied admit leaves the entry
\* unchanged (it neither raises the count nor extends the window).
C22_EntryBounds ==
    /\ \A r \in Routes : \A ip \in DOMAIN rateLimits[r] :
          1 <= rateLimits[r][ip].count /\ rateLimits[r][ip].count <= rateLimit
    /\ report.op = "admit" =>
          \A r \in Routes :
              LET before == report.before[r]
                  after == report.after[r]
                  inside == /\ report.ip \in DOMAIN before
                            /\ report.t - before[report.ip].timestamp <= RATE_WINDOW
              IN  /\ report.ip \in DOMAIN after => after[report.ip].timestamp <= report.t
                  /\ inside =>
                        /\ report.ip \in DOMAIN after
                        /\ after[report.ip].timestamp = before[report.ip].timestamp
                  /\ ~report.allowed[r] => inside /\ after[report.ip] = before[report.ip]

\* A call denied at the ceiling, by all three maps.
C22_Witness ==
    /\ report.op = "admit"
    /\ \A r \in Routes :
          /\ ~report.allowed[r]
          /\ report.before[r][report.ip].count = rateLimit
          /\ report.after[r][report.ip] = report.before[r][report.ip]
    /\ rateLimit > 1

\* The handler is past its admission: suspended at its await, or answered
\* with something else than 429.
Admitted(h) == hs[h].pc = "await" \/ (hs[h].pc = "done" /\ hs[h].status # 429)

\* C23: the admission check-then-increment is never split across a suspension
\* point: for every interleaving of concurrent handlers of one source at their
\* await points, the number of requests admitted within one window never
\* exceeds the ceiling (no two handlers are admitted on the same count).
C23_NoSplitAdmission ==
    /\ \A h \in Handlers :
          (hs[h].route \in {"track", "events2"} /\ Admitted(h)) =>
              hs[h].k <= RATE_LIMIT_DEFAULT
    /\ \A h, g \in Handlers :
          (/\ h # g /\ Admitted(h) /\ Admitted(g)
           /\ hs[h].route = hs[g].route /\ hs[h].ip = hs[g].ip) => hs[h].k # hs[g].k
    /\ \A r \in {"track", "events2"} : \A ip \in DOMAIN rateLimits[r] :
          /\ rateLimits[r][ip].count <= RATE_LIMIT_DEFAULT
          /\ calls[r][ip].n <= RATE_LIMIT_DEFAULT => rateLimits[r][ip].count = calls[r][ip].n

\* A call past the ceiling is denied while the handler of an admitted call of
\* the same source is suspended at its await.
C23_Witness ==
    \E h, g \in Handlers :
        /\ h # g
        /\ hs[g].pc = "await" /\ hs[g].k = RATE_LIMIT_DEFAULT
        /\ hs[h].pc = "done" /\ hs[h].status = 429 /\ hs[h].k > RATE_LIMIT_DEFAULT
        /\ hs[h].route = hs[g].route /\ hs[h].ip = hs[g].ip

\* The source has an entry in the route's map whose window has expired.
ExpiredEntry(r, ip) ==
    ip \in DOMAIN rateLimits[r] /\ now - rateLimits[r][ip].timestamp > RATE_WINDOW

\* The sweep removes exactly the expired entries, and the decisions of the
\* swept track map equal those of the unswept events map.
SweepExactAndUnobserved ==
    /\ [][\A r \in Routes :
            (rateLimits'[r] # rateLimits[r] /\ report' = report) =>
                /\ DOMAIN rateLimits'[r] = {ip \in DOMAIN rateLimits[r] : ~ExpiredEntry(r, ip)}
                /\ \A ip \in DOMAIN rateLimits'[r] : rateLimits'[r][ip] = rateLimits[r][ip]]_vars
    /\ [](report.op = "admit" => report.allowed["track"] = report.allowed["events"])

\* With the timers running, an expired entry of the two modules that set one
\* is removed or renewed.
TimerSweepsExpired ==
    \A r \in {"track", "events"} : \A ip \in QuotaSources :
        ExpiredEntry(r, ip) ~> ~ExpiredEntry(r, ip)

\* C24: the rate-limit sweep removes exactly the entries whose window has
\* expired and leaves every other entry unchanged, running it between admit
\* calls never changes the result of a later admit, and the entry of a source
\* that stops sending is eventually removed, at each of the three modules.
C24_SweepRemovesIdleEntries ==
    /\ SweepExactAndUnobserved
    /\ \A r \in Routes : \A ip \in QuotaSources :
          ExpiredEntry(r, ip) ~> ~ExpiredEntry(r, ip)

\* C25: within one sweep the expired facts are deleted before the orphan check
\* runs, so that when the sweep completes every remaining user agent row is
\* referenced by at least one remaining pageview, including rows whose only
\* references were deleted by that same sweep.
C25_NoOrphanAfterSweep ==
    (last.route = "track" /\ last.pvId # 0) =>
        \A ua \in db.user_agents : \E p \in db.pageviews : p.user_agent_id = ua.id

\* The sweep of the second pageview has deleted the first pageview, expired
\* by then, and with it the user agent row only that pageview referenced.
C25_Witness ==
    /\ last.route = "track" /\ last.pvId = 2 /\ last.uaId = 2
    /\ {p.id : p \in db.pageviews} = {2}
    /\ {ua.id : ua \in db.user_agents} = {2}

\* C27: referential integrity holds in every reachable state: after any
\* sequence of pageview ingestions and retention sweeps, the user_agent_id of
\* every stored pageview refers to an existing user agent row (a key returned
\* by insertUserAgent is never swept away before its pageview is written).
C27_ReferentialIntegrity ==
    \A p \in db.pageviews : \E ua \in db.user_agents : ua.id = p.user_agent_id

\* The second pageview resolved to the row of the first; its sweep deleted the
\* first pageview and kept the row.
C27_Witness ==
    /\ last.route = "track" /\ last.pvId = 2 /\ last.uaId = 1
    /\ db.seq.user_agents = 1
    /\ {p.id : p \in db.pageviews} = {2}
    /\ \E ua \in db.user_agents : ua.id = 1

\* C26: every web vital persisted through the ingestion path satisfies the
\* data model: metric_name is one of LCP, FCP, CLS, FID, TTFB, metric_value is a
\* number >= 0, and metric_rating is absent or one of good, needs-improvement,
\* poor.
C26_WebVitalDataModel ==
    \A r \in db.web_vitals :
        /\ r.metric_name \in {"LCP", "FCP", "CLS", "FID", "TTFB"}
        /\ r.metric_value >= 0
        /\ r.metric_rating \in {NULL, "good", "needs-improvement", "poor"}

\* C28: whenever a pageview request is answered with success, the pageview
\* written for it and the user agent row it references are in the store when
\* the response is produced: the sweep fired by an insert never deletes the
\* row whose insert fired it.
C28_AnsweredPageviewStored ==
    (last.route = "track" /\ last.status = 200) =>
        \E p \in db.pageviews :
            /\ p.id = last.pvId
            /\ p.user_agent_id = last.uaId
            /\ \E ua \in db.user_agents : ua.id = p.user_agent_id

\* The same statement for the requests whose timestamp is not older than the
\* cutoff of the sweep their insert fires.
FreshAnsweredPageviewStored ==
    (/\ last.route = "track" /\ last.status = 200
     /\ last.body.timestamp.type = "number"
     /\ ~(last.body.timestamp.num < Cutoff(last.t))) =>
        \E p \in db.pageviews :
            /\ p.id = last.pvId
            /\ p.user_agent_id = last.uaId
            /\ \E ua \in db.user_agents : ua.id = p.user_agent_id

\* C29: for one sequence of (source, time) calls, one window and one ceiling
\* of at least 1, checkRateLimit (which resets the source's entry on expiry)
\* and the inline admission (which sweeps every expired entry, then compares
\* the count with the ceiling) return the same decision at every call, and
\* leave the same entry for the calling source.
C29_SameDecisions ==
    report.op = "admit" =>
        /\ report.allowed["track"] = report.allowed["events2"]
        /\ report.allowed["events"] = report.allowed["events2"]
        /\ \A r \in Routes :
              /\ report.ip \in DOMAIN report.after[r]
              /\ report.after[r][report.ip] = report.after["events2"][report.ip]

\* A call of a source whose entry stands at the ceiling and has expired, while
\* the other source's entry has expired too: checkRateLimit resets the one and
\* keeps the other, the inline admission sweeps both, and both admit.
C29_Witness ==
    /\ report.op = "admit"
    /\ rateLimit >= 2
    /\ report.ip \in DOMAIN report.before["events"]
    /\ report.before["events"][report.ip].count = rateLimit
    /\ report.t - report.before["events"][report.ip].timestamp > RATE_WINDOW
    /\ report.allowed["events"] /\ report.allowed["events2"]
    /\ \E other \in QuotaSources \ {report.ip} :
          /\ other \in DOMAIN report.before["events2"]
          /\ other \in DOMAIN report.after["events"]
          /\ other \notin DOMAIN report.after["events2"]

\* The units of its quota a source has used in the window open at time t.
UnitsUsed(m, ip, t) ==
    IF ip \in DOMAIN m /\ ~(t - m[ip].timestamp > RATE_WINDOW) THEN m[ip].count ELSE 0

\* The admission step of a request: nothing of the body is known yet, the
\* store is left alone, and the request either awaits its body with one more
\* unit used by its source, or is answered 429 with the units as they were.
AdmissionStep ==
    nreq' # nreq =>
        /\ db' = db /\ last' = last /\ batches' = batches
        /\ \E h \in Handlers :
              /\ hs[h].pc # "await"
              /\ LET r == hs'[h].route
                     ip == hs'[h].ip
                     before == UnitsUsed(rateLimits[r], ip, now)
                     after == UnitsUsed(rateLimits'[r], ip, now)
                 IN  \/ hs'[h].pc = "await" /\ after = before + 1
                     \/ /\ hs'[h].pc = "done" /\ hs'[h].status = 429
                        /\ after = before
                        /\ hs'[h].uaId = 0 /\ hs'[h].pvId = 0 /\ hs'[h].ceId = 0

\* The step that reads the body and answers: only an admitted request takes
\* it, it never answers 429, and whatever its answer (200, 400 or 500) the
\* quota maps stay as the admission left them.
BodyStep ==
    \A h \in Handlers :
        (hs'[h].pc = "done" /\ hs'[h] # hs[h] /\ nreq' = nreq) =>
            /\ hs[h].pc = "await"
            /\ hs'[h].status \in {200, 400, 500}
            /\ last'.h = h /\ last'.status = hs'[h].status
            /\ rateLimits' = rateLimits

\* C30: admission is decided before the request body is read. A request
\* answered 429 is never validated and writes nothing to the store; an
\* admitted request uses one unit of its source's quota, and keeps it used
\* when it is afterwards answered 400 or 500. No store change happens except
\* in the body step of an admitted request, and no body is ever answered 429.
C30_AdmissionBeforeBody ==
    /\ [](last.status # 429)
    /\ [][AdmissionStep /\ BodyStep /\ (db' # db => nreq' = nreq)]_vars

\* With the ceiling at 1: a request of a source was admitted and then
\* answered 400 or 500, and the next request of that source at the same route
\* was answered 429 although the first one stored nothing.
C30_Witness ==
    \E h, g \in Handlers :
        /\ hs[h].pc = "done" /\ hs[h].status \in {400, 500} /\ hs[h].k = 1
        /\ hs[g].pc = "done" /\ hs[g].status = 429 /\ hs[g].k = 2
        /\ hs[g].route = hs[h].route /\ hs[g].ip = hs[h].ip
        /\ db.pageviews = {} /\ db.custom_events = {}
        /\ UnitsUsed(rateLimits[hs[h].route], hs[h].ip, now) = rateLimit

====
